---- MODULE Spec2Model ----
(***************************************************************************)
(* Model of the chat model registry of better-chatbot:                     *)
(*   src/lib/db/pg/repositories/openrouter-pricing-repository.pg.ts        *)
(* The registry holds the static provider tables, the OpenRouter table     *)
(* that a background refresh replaces, the set of models without tool      *)
(* calls, and the pricing store the refresh writes to.  The module also    *)
(* models the pricing repository called directly and formatLargeNumber of  *)
(*   src/components/tool-invocation/pie-chart.tsx                          *)
(***************************************************************************)
EXTENDS Integers, Sequences, FiniteSets, TLC

(***************************************************************************)
(* Bounds of the model.                                                    *)
(***************************************************************************)
\* Invocations of refreshOpenRouterModels in one run (startup + timer ticks).
MaxRefreshes == 2
\* Entries of one catalog response.
MaxList == 2
\* Key variables of the environment that are set at a time.
MaxKeysSet == 2
\* Groups of three decimal digits of a number passed to formatLargeNumber.
MaxGroups == 12

(***************************************************************************)
(* JavaScript values that occur in a catalog response.  Every value is a   *)
(* record of the same shape: t is the typeof tag, s the text of a string,  *)
(* n the value of a number in millionths (micro-USD).                      *)
(***************************************************************************)
Undef == [t |-> "undefined", s |-> "", n |-> 0]
Str(x) == [t |-> "string", s |-> x, n |-> 0]
NumV(x) == [t |-> "number", s |-> "", n |-> x]

\* A JavaScript number: NaN, or a count of millionths.
NaN == [nan |-> TRUE, u |-> 0]
Micro(x) == [nan |-> FALSE, u |-> x]

\* JavaScript truthiness of a value: undefined, "" and 0 are falsy.
Truthy(v) ==
  CASE v.t = "undefined" -> FALSE
    [] v.t = "string" -> v.s # ""
    [] v.t = "number" -> v.n # 0
    [] OTHER -> TRUE

\* Number(text) for the texts of the model.
NumberOfString(x) ==
  CASE x = "" -> Micro(0)
    [] x = "0" -> Micro(0)
    [] x = "0.000001" -> Micro(1)
    [] x = "1e-6" -> Micro(1)
    [] x = "0.000002" -> Micro(2)
    [] x = "0.000003" -> Micro(3)
    [] OTHER -> NaN

\* Number(v) for a value v.
Number(v) ==
  CASE v.t = "undefined" -> NaN
    [] v.t = "string" -> NumberOfString(v.s)
    [] v.t = "number" -> Micro(v.n)
    [] OTHER -> NaN

\* String(x) for a JavaScript number x.
String(x) ==
  IF x.nan THEN "NaN"
  ELSE CASE x.u = 0 -> "0"
         [] x.u = 1 -> "0.000001"
         [] x.u = 2 -> "0.000002"
         [] x.u = 3 -> "0.000003"
         [] OTHER -> "other"

(***************************************************************************)
(* Model handles.  A handle is the object a provider factory returns:      *)
(* sdk is the factory, modelId the id passed to it, ref the allocation     *)
(* that made it (0: module initialization; r > 0: the r-th catalog         *)
(* response processed), so that two handles are the same record exactly    *)
(* when they are the same object.                                          *)
(***************************************************************************)
Handle(sdk, id, ref) == [sdk |-> sdk, modelId |-> id, ref |-> ref]
openai(id) == Handle("openai", id, 0)
google(id) == Handle("google", id, 0)
anthropic(id) == Handle("anthropic", id, 0)
xai(id) == Handle("xai", id, 0)
ollama(id) == Handle("ollama", id, 0)
groq(id) == Handle("groq", id, 0)
openrouter(id, ref) == Handle("openrouter", id, ref)

\* A value that is no model handle (its sdk is "<builtin>"): a built-in object
\* or function of the JavaScript runtime, or undefined/null (both falsy).
Builtin(name) == [sdk |-> "<builtin>", modelId |-> name, ref |-> 0]
Undefined == Builtin("undefined")
Null == Builtin("null")
TruthyObj(v) == v # Undefined /\ v # Null

\* A plain object: its own properties and its prototype.
ObjectPrototype == Builtin("Object.prototype")
PlainObject(own) == [own |-> own, proto |-> ObjectPrototype]

\* The property names every object inherits from Object.prototype, as far as
\* the model's lookups use them.
ProtoKeys == {"constructor", "toString", "__proto__"}

staticModels ==
  [p \in {"openai", "google", "anthropic", "xai", "ollama", "groq", "openRouter"} |->
    CASE p = "openai" ->
           PlainObject(
             ("gpt-4.1" :> openai("gpt-4.1")) @@
             ("gpt-4.1-mini" :> openai("gpt-4.1-migrate")) @@
             ("o4-mini" :> openai("o4-mini")) @@
             ("o3" :> openai("o3")) @@
             ("gpt-5" :> openai("gpt-5")) @@
             ("gpt-5-mini" :> openai("gpt-5-mini")) @@
             ("gpt-5-nano" :> openai("gpt-5-nano")))
      [] p = "google" ->
           PlainObject(
             ("gemini-2.5-flash-lite" :> google("gemini-2.5-flash-lite")) @@
             ("gemini-2.5-flash" :> google("gemini-2.5-flash")) @@
             ("gemini-2.5-pro" :> google("gemini-2.5-pro")))
      [] p = "anthropic" ->
           PlainObject(
             ("claude-4-sonnet" :> anthropic("claude-4-sonnet-20250514")) @@
             ("claude-4-opus" :> anthropic("claude-4-opus-20250514")) @@
             ("claude-3-7-sonnet" :> anthropic("claude-3-7-sonnet-20250219")))
      [] p = "xai" ->
           PlainObject(
             ("grok-4" :> xai("grok-4")) @@
             ("grok-4-fast" :> xai("grok-4-fast-non-reasoning")) @@
             ("grok-3" :> xai("grok-3")) @@
             ("grok-3-mini" :> xai("grok-3-mini")))
      [] p = "ollama" ->
           PlainObject(
             ("gemma3:1b" :> ollama("gemma3:1b")) @@
             ("gemma3:4b" :> ollama("gemma3:4b")) @@
             ("gemma3:12b" :> ollama("gemma3:12b")))
      [] p = "groq" ->
           PlainObject(
             ("kimi-k2-instruct" :> groq("moonshotai/kimi-k2-instruct")) @@
             ("llama-4-scout-17b" :> groq("meta-llama/llama-4-scout-17b-16e-instruct")) @@
             ("gpt-oss-20b" :> groq("openai/gpt-oss-20b")) @@
             ("gpt-oss-120b" :> groq("openai/gpt-oss-120b")) @@
             ("qwen3-32b" :> groq("qwen/qwen3-32b")))
      [] p = "openRouter" -> PlainObject(<<>>)]

staticUnsupportedModels ==
  { staticModels["openai"].own["o4-mini"],
    staticModels["ollama"].own["gemma3:1b"],
    staticModels["ollama"].own["gemma3:4b"],
    staticModels["ollama"].own["gemma3:12b"] }

\* The table openRouterDynamicModels is initialized with.
SeedOpenRouterModels ==
  PlainObject(
    ("gpt-oss-20b:free" :> openrouter("openai/gpt-oss-20b:free", 0)) @@
    ("qwen3-8b:free" :> openrouter("qwen/qwen3-8b:free", 0)) @@
    ("qwen3-14b:free" :> openrouter("qwen/qwen3-14b:free", 0)) @@
    ("qwen3-coder:free" :> openrouter("qwen/qwen3-coder:free", 0)) @@
    ("deepseek-r1:free" :> openrouter("deepseek/deepseek-r1-0528:free", 0)) @@
    ("deepseek-v3:free" :> openrouter("deepseek/deepseek-chat-v3-0324:free", 0)) @@
    ("gemini-2.0-flash-exp:free" :> openrouter("google/gemini-2.0-flash-exp:free", 0)))

fallbackModel == staticModels["openai"].own["gpt-4.1"]

(***************************************************************************)
(* The OpenAI-compatible layer (create-openai-compatiable.ts) parses       *)
(* OPENAI_COMPATIBLE_DATA into provider tables and a set of handles        *)
(* without tool calls; each configured provider carries its own apiKey.    *)
(* Its results for three configurations: none, one extra provider with a   *)
(* key, and one without a key next to one that reuses the id of a static   *)
(* provider (one of its models is named like a static one, one like no     *)
(* other, one like a method every object has).                             *)
(***************************************************************************)
compatible(provider, id) == Handle("compatible:" \o provider, id, 0)

CompatConfigs ==
  { [providers |-> <<>>, unsupportedModels |-> {}, apiKeys |-> <<>>],
    [providers |->
       ("custom" :> PlainObject(("m1" :> compatible("custom", "m1")) @@
                                ("m2" :> compatible("custom", "m2")))),
     unsupportedModels |-> {compatible("custom", "m2")},
     apiKeys |-> ("custom" :> Str("sk-compat"))],
    [providers |->
       ("custom" :> PlainObject(("m1" :> compatible("custom", "m1")))) @@
       ("openai" :> PlainObject(("gpt-4.1" :> compatible("openai", "gpt-4.1")) @@
                                ("only-compat" :> compatible("openai", "only-compat")) @@
                                ("toString" :> compatible("openai", "toString")))),
     unsupportedModels |-> {compatible("openai", "only-compat")},
     apiKeys |-> ("custom" :> Str("")) @@ ("openai" :> Str("sk-compat"))] }

(***************************************************************************)
(* Catalog responses.  An entry of the list carries an id and a pricing    *)
(* object; a body carries a data field and a models field, each an array   *)
(* of entries or something that is no array.                               *)
(***************************************************************************)
NoPricing == [present |-> FALSE, prompt |-> Undef, completion |-> Undef, request |-> Undef]
Pricing(p, c, q) == [present |-> TRUE, prompt |-> p, completion |-> c, request |-> q]
Entry(id, pricing) == [id |-> id, pricing |-> pricing]

NotArray == [isArray |-> FALSE, items |-> <<>>]
Array(items) == [isArray |-> TRUE, items |-> items]
Body(data, models) == [data |-> data, models |-> models]

SeqsUpTo(S, n) == UNION { [1..k -> S] : k \in 0..n }

GoodPricing == Pricing(Str("0.000001"), Str("0.000002"), Undef)

\* The values a price field takes in the wide responses: absent, a decimal
\* text, a text that is no number, the number 0.
PriceValues == {Undef, Str("0.000001"), Str("abc"), NumV(0)}

WidePricings ==
  {NoPricing}
    \cup { Pricing(p, c, Undef) : p \in PriceValues, c \in PriceValues }
    \cup { Pricing(Str("0.000001"), Str("0.000002"), q) : q \in {Str("0.000003"), NumV(0)} }

\* The entries of the wide responses: every pricing under id "A", and ids
\* that are another model, the name of the prototype accessor, empty, no
\* string, or missing.
WideEntries ==
  { Entry(Str("A"), pr) : pr \in WidePricings }
    \cup { Entry(id, pr) : id \in {Str("B"), Str("__proto__")}, pr \in {NoPricing, GoodPricing} }
    \cup { Entry(id, GoodPricing) : id \in {Str(""), NumV(5), Undef} }

\* Bodies over a set of entries: the list under data, under models, under
\* models behind an empty data array, and a body with neither.
BodiesOver(E) ==
  { Body(Array(l), NotArray) : l \in SeqsUpTo(E, MaxList) }
    \cup { Body(NotArray, Array(l)) : l \in SeqsUpTo(E, MaxList) }
    \cup { Body(Array(<<>>), Array(l)) : l \in SeqsUpTo(E, 1) }
    \cup { Body(NotArray, NotArray) }

WideBodies == BodiesOver(WideEntries)

\* The bodies the concurrent runs draw from: no list, an empty list, only an
\* entry without id, one model, another model under models, two priced
\* models, and one model priced and one not.
Bodies ==
  { Body(NotArray, NotArray),
    Body(Array(<<>>), NotArray),
    Body(Array(<<Entry(Undef, GoodPricing)>>), NotArray),
    Body(Array(<<Entry(Str("A"), NoPricing)>>), NotArray),
    Body(NotArray, Array(<<Entry(Str("B"), GoodPricing)>>)),
    Body(Array(<<Entry(Str("A"), GoodPricing), Entry(Str("B"), GoodPricing)>>), NotArray),
    Body(Array(<<Entry(Str("B"), NoPricing), Entry(Str("A"), GoodPricing)>>), NotArray) }

(***************************************************************************)
(* refreshOpenRouterModels, lines 167-198: what the code does with a       *)
(* parsed body.                                                            *)
(***************************************************************************)
\* Lines 167-171: the list of a body.
ListOf(body) ==
  IF body.data.isArray THEN body.data.items
  ELSE IF body.models.isArray THEN body.models.items
  ELSE <<>>

\* obj[k] = v on a plain object: the key __proto__ is the accessor of
\* Object.prototype and replaces the prototype; any other key becomes an
\* own property.
Assign(obj, k, v) ==
  IF k = "__proto__" THEN [obj EXCEPT !.proto = v]
  ELSE [obj EXCEPT !.own = (k :> v) @@ obj.own]

\* Line 176: the entry is skipped.
SkipsEntry(m) == ~Truthy(m.id) \/ m.id.t # "string"

\* Lines 174-177: the entries of the list of a body that are not skipped.
Kept(body) ==
  Cardinality({ i \in 1..Len(ListOf(body)) : ~SkipsEntry(ListOf(body)[i]) })

\* Line 179: the prices are looked at.
HasPrices(m) ==
  m.pricing.present /\ Truthy(m.pricing.prompt) /\ Truthy(m.pricing.completion)

\* Lines 180-191: the record handed to upsert.
PricingRecordOf(m) ==
  [modelId |-> m.id.s,
   promptPrice |-> Number(m.pricing.prompt),
   completionPrice |-> Number(m.pricing.completion),
   requestPrice |->
     IF Truthy(m.pricing.request)
       THEN [null |-> FALSE, val |-> Number(m.pricing.request)]
       ELSE [null |-> TRUE, val |-> Micro(0)],
   currency |-> "USD"]

\* Lines 179-194: an upsert is pushed for the entry.
IssuesUpsert(m) ==
  /\ HasPrices(m)
  /\ ~Number(m.pricing.prompt).nan
  /\ ~Number(m.pricing.completion).nan

\* Lines 174-195: one iteration of the loop.  acc is <<fresh, upserts>>; an
\* upsert is the record and the state of its promise.
LoopBody(acc, m, ref) ==
  IF SkipsEntry(m) THEN acc
  ELSE [fresh |-> Assign(acc.fresh, m.id.s, openrouter(m.id.s, ref)),
        upserts |->
          IF IssuesUpsert(m)
            THEN Append(acc.upserts, [rec |-> PricingRecordOf(m), st |-> "pending"])
            ELSE acc.upserts]

RECURSIVE Loop(_, _, _, _)
Loop(acc, list, i, ref) ==
  IF i > Len(list) THEN acc
  ELSE Loop(LoopBody(acc, list[i], ref), list, i + 1, ref)

\* The loop followed by a guard that drops the upserts of a refresh whose
\* fresh table is empty.
BuiltUpsertsOnlyWithTable(body, ref) ==
  LET built == Loop([fresh |-> PlainObject(<<>>), upserts |-> <<>>], ListOf(body), 1, ref)
  IN IF DOMAIN built.fresh.own = {} THEN [built EXCEPT !.upserts = <<>>] ELSE built

\* Lines 172-195: fresh and upserts after the loop.
Built(body, ref) ==
  Loop([fresh |-> PlainObject(<<>>), upserts |-> <<>>], ListOf(body), 1, ref)

\* Swap without the guard of line 196: an empty fresh table is installed too.
SwapAlways(current, fresh) == fresh

\* Swap that adds the fresh entries to the table instead of replacing it.
SwapMerges(current, fresh) ==
  IF DOMAIN fresh.own # {} THEN [fresh EXCEPT !.own = fresh.own @@ current.own] ELSE current

\* Swap with the guard of line 196 off by one: length >= 0.
SwapOnAnyLength(current, fresh) ==
  IF Cardinality(DOMAIN fresh.own) >= 0 THEN fresh ELSE current

\* Swap behind a guard that lets only the first refresh install its table.
SwapKeepsFirst(current, fresh) ==
  IF DOMAIN fresh.own # {} /\ current = SeedOpenRouterModels THEN fresh ELSE current

\* Lines 196-198: the table after the swap.
Swap(current, fresh) ==
  IF DOMAIN fresh.own # {} THEN fresh ELSE current

(***************************************************************************)
(* The pricing store: pgOpenRouterPricingRepository over the table         *)
(* OpenRouterPricingSchema, one row per modelId, prices kept as text.      *)
(***************************************************************************)
\* Lines 18-24: the row of the values clause.  updatedAt is not given, so
\* an inserted row gets the default of its column.
RowOf(p) ==
  [modelId |-> p.modelId,
   promptPrice |-> String(p.promptPrice),
   completionPrice |-> String(p.completionPrice),
   requestPrice |->
     IF ~p.requestPrice.null
       THEN [null |-> FALSE, text |-> String(p.requestPrice.val)]
       ELSE [null |-> TRUE, text |-> ""],
   currency |-> p.currency,
   updatedAt |-> "default"]

\* Lines 27-33: the set clause applied to the row in conflict.
SetOf(row, p) ==
  [row EXCEPT !.promptPrice = String(p.promptPrice),
              !.completionPrice = String(p.completionPrice),
              !.requestPrice =
                IF ~p.requestPrice.null
                  THEN [null |-> FALSE, text |-> String(p.requestPrice.val)]
                  ELSE [null |-> TRUE, text |-> ""],
              !.currency = p.currency,
              !.updatedAt = "new Date()"]

\* Line 26: the rows in conflict with the values on the target modelId.
ConflictRows(rows, p) == { row \in rows : row.modelId = p.modelId }

\* An insert without the conflict clause.
insertOnly(rows, p) == rows \cup {RowOf(p)}

\* Lines 15-35, upsert: insert the row, or on a conflict on modelId update
\* the row in conflict.
upsert(rows, p) ==
  IF ConflictRows(rows, p) = {} THEN rows \cup {RowOf(p)}
  ELSE (rows \ ConflictRows(rows, p)) \cup { SetOf(row, p) : row \in ConflictRows(rows, p) }

\* Lines 42-49: the record made of a row, the prices read back as numbers.
RecordOf(row) ==
  [modelId |-> row.modelId,
   promptPrice |-> NumberOfString(row.promptPrice),
   completionPrice |-> NumberOfString(row.completionPrice),
   requestPrice |->
     IF ~row.requestPrice.null
       THEN [null |-> FALSE, val |-> NumberOfString(row.requestPrice.text)]
       ELSE [null |-> TRUE, val |-> Micro(0)],
   currency |-> row.currency,
   updatedAt |-> row.updatedAt]

\* A select without the where clause.
SelectEveryRow(rows, ids) == rows

\* Lines 38-41: the rows the awaited select of getByModelIds reads from the
\* table as it is when the statement runs (the order of the rows of a
\* select is not fixed: a set).
SelectInArray(rows, ids) ==
  { row \in rows : \E i \in 1..Len(ids) : ids[i] = row.modelId }

\* Lines 42-49: the records getByModelIds returns for the rows read.
MapRows(rows) == { RecordOf(row) : row \in rows }

\* A price of a record: a number, or null for a request price.
Price(x) == [null |-> FALSE, val |-> x]
NullPrice == [null |-> TRUE, val |-> Micro(0)]

\* An OpenRouterPricing record (lines 5-12).
OpenRouterPricing(id, prompt, completion, request, currency) ==
  [modelId |-> id, promptPrice |-> prompt, completionPrice |-> completion,
   requestPrice |-> request, currency |-> currency]

\* The records the direct calls of upsert are made with: for A the record
\* of a refresh, one with other prices and a request price, and one with a
\* request price of 0 and another currency; for B the record of a refresh
\* and one that is free and whose request price is NaN.
StoreRecords ==
  { OpenRouterPricing("A", Micro(1), Micro(2), NullPrice, "USD"),
    OpenRouterPricing("A", Micro(2), Micro(3), Price(Micro(3)), "USD"),
    OpenRouterPricing("A", Micro(1), Micro(2), Price(Micro(0)), "EUR"),
    OpenRouterPricing("B", Micro(1), Micro(2), NullPrice, "USD"),
    OpenRouterPricing("B", Micro(0), Micro(0), Price(NaN), "USD") }

\* The id lists getByModelIds is called with: the empty list, a list with
\* an id that is never stored and a repeated id, and a list of both ids.
LookupIds == { <<>>, <<"A", "C", "A">>, <<"B", "A">> }

\* The callers of the repository outside the refresh; each has at most one
\* call in flight, and the calls of the two overlap.
Callers == {"c1", "c2"}

\* A direct call of the repository as its caller holds it: the operation
\* and its arguments, where the call stands ("idle": none made yet;
\* "statement": upsert awaits its insert at line 16; "ran": the insert
\* has run and its result is not yet delivered; "select":
\* getByModelIds awaits its select at line 38; "map": the select has
\* run and the continuation of lines 42-49 has not; "fulfilled" and
\* "rejected": the promise of the call is settled), whether a query was
\* issued, the rows the select read, the upserts run before the select
\* (history), and the value of the fulfilled promise.
NoCall ==
  [op |-> "none", arg |-> <<>>, pc |-> "idle", queried |-> FALSE, rows |-> {},
   seen |-> <<>>, result |-> {}]
UpsertCall(p) == [NoCall EXCEPT !.op = "upsert", !.arg = <<p>>, !.pc = "statement",
                                !.queried = TRUE]
LookupCall(ids) == [NoCall EXCEPT !.op = "getByModelIds", !.arg = ids]
Settled(call) == call.pc \in {"idle", "fulfilled", "rejected"}

(***************************************************************************)
(* formatLargeNumber of components/tool-invocation/pie-chart.tsx, which    *)
(* formats the total the pie chart shows in its centre.  An argument is    *)
(* written as a decimal literal: its sign, the groups of three decimal     *)
(* digits of its integer part (most significant first, none for 0) and     *)
(* the groups of its fraction.  The number the code computes with is the   *)
(* double nearest to the literal, and every division and toFixed is the    *)
(* one of IEEE-754 doubles: a double is m * 2^e with 2^52 <= m < 2^53, m   *)
(* a natural number written in groups of three decimal digits.  Doubles    *)
(* outside the normal range (below 2^-1022 or above 2^1023) are not        *)
(* arguments of the model.                                                 *)
(***************************************************************************)
Special(kind) == [kind |-> kind, neg |-> FALSE, int |-> <<>>, frac |-> <<>>]
Finite(neg, int, frac) == [kind |-> "finite", neg |-> neg, int |-> int, frac |-> frac]

\* The groups are all 0.
AllZero(groups) == \A i \in 1..Len(groups) : groups[i] = 0

\* num === 0, num < 0 and -num for a finite num.
IsZero(num) == AllZero(num.int) /\ AllZero(num.frac)
IsNegative(num) == num.neg /\ ~IsZero(num)
Negate(num) == [num EXCEPT !.neg = ~num.neg]

\* Natural numbers of any size, in groups of three digits: without the
\* zero groups in front, times a digit k (plus a carry), divided by a
\* digit k (quotient and remainder), plus one, and compared.
RECURSIVE Norm(_)
Norm(w) == IF w # <<>> /\ w[1] = 0 THEN Norm(Tail(w)) ELSE w

RECURSIVE TimesSmall(_, _, _)
TimesSmall(w, k, carry) ==
  IF w = <<>> THEN (IF carry = 0 THEN <<>> ELSE <<carry>>)
  ELSE LET t == w[Len(w)] * k + carry
       IN Append(TimesSmall(SubSeq(w, 1, Len(w) - 1), k, t \div 1000), t % 1000)

RECURSIVE DivSmall(_, _, _, _)
DivSmall(w, k, rem, acc) ==
  IF w = <<>> THEN [q |-> Norm(acc), r |-> rem]
  ELSE LET t == rem * 1000 + w[1]
       IN DivSmall(Tail(w), k, t % k, Append(acc, t \div k))

PlusOne(w) == TimesSmall(w, 1, 1)

RECURSIVE AtLeast(_, _)
AtLeast(a, b) ==
  IF Len(a) # Len(b) THEN Len(a) > Len(b)
  ELSE IF a = <<>> THEN TRUE
  ELSE IF a[1] # b[1] THEN a[1] > b[1]
  ELSE AtLeast(Tail(a), Tail(b))

\* w * 2^k and w \div 2^k, nine bits at a time while k allows.
RECURSIVE TimesPow2(_, _)
TimesPow2(w, k) ==
  IF k = 0 THEN w
  ELSE IF k >= 9 THEN TimesPow2(TimesSmall(w, 512, 0), k - 9)
  ELSE TimesPow2(TimesSmall(w, 2, 0), k - 1)

RECURSIVE DivPow2(_, _)
DivPow2(w, k) ==
  IF k = 0 \/ w = <<>> THEN w
  ELSE IF k >= 9 THEN DivPow2(DivSmall(w, 512, 0, <<>>).q, k - 9)
  ELSE DivPow2(DivSmall(w, 2, 0, <<>>).q, k - 1)

\* 2^52, 2^53 and 2^54: the significand of a double has 53 bits.
Two52 == <<4, 503, 599, 627, 370, 496>>
Two53 == <<9, 7, 199, 254, 740, 992>>
Two54 == <<18, 14, 398, 509, 481, 984>>

\* w and e with 2^53 <= w \div 1000^j < 2^54 and w / 1000^j * 2^e the
\* value that w / 1000^j * 2^e was at the start, but for the bits the
\* divisions have dropped (sticky: one of them was 1).  The quotient is
\* multiplied or divided by 2^9 while it is below 10^12 or at least 10^21,
\* and by 2 after that.
RECURSIVE Normalise(_, _, _, _)
Normalise(w, j, e, sticky) ==
  LET q == SubSeq(w, 1, Len(w) - j)
  IN IF Len(q) <= 4 THEN Normalise(TimesSmall(w, 512, 0), j, e - 9, sticky)
     ELSE IF Len(q) >= 8
       THEN Normalise(DivSmall(w, 512, 0, <<>>).q, j, e + 9,
                      sticky \/ DivSmall(w, 512, 0, <<>>).r # 0)
     ELSE IF ~AtLeast(q, Two53) THEN Normalise(TimesSmall(w, 2, 0), j, e - 1, sticky)
     ELSE IF AtLeast(q, Two54)
       THEN Normalise(DivSmall(w, 2, 0, <<>>).q, j, e + 1, sticky \/ w[Len(w)] % 2 = 1)
     ELSE [w |-> w, e |-> e, sticky |-> sticky]

\* The double nearest to n / 1000^j * 2^e for a natural number n > 0, ties
\* to the even significand (the rounding of a literal and of a division).
Nearest(n, j, e) ==
  LET x == Normalise(n, j, e, FALSE)
      h == DivSmall(SubSeq(x.w, 1, Len(x.w) - j), 2, 0, <<>>)
      inexact == x.sticky \/ ~AllZero(SubSeq(x.w, Len(x.w) - j + 1, Len(x.w)))
      up == h.r = 1 /\ (inexact \/ h.q[Len(h.q)] % 2 = 1)
      m == IF up THEN PlusOne(h.q) ELSE h.q
  IN IF m = Two53 THEN [m |-> Two52, e |-> x.e + 2] ELSE [m |-> m, e |-> x.e + 1]

\* Line 51: the number a literal that is neither zero nor negative stands for.
NumberOf(num) == Nearest(Norm(num.int \o num.frac), Len(num.frac), 0)

\* Lines 69 and 89: value >= 1000.
AtLeast1000(d) ==
  IF d.e >= 0 THEN TRUE
  ELSE AtLeast(d.m, TimesPow2(<<1, 0>>, -d.e))

\* Line 90: value /= 1000.
DivideBy1000(d) == Nearest(d.m, 1, d.e)

\* A group of three digits with its leading zeros, and without the zeros
\* at its end.
Pad3(g) ==
  IF g < 10 THEN "00" \o ToString(g) ELSE IF g < 100 THEN "0" \o ToString(g) ELSE ToString(g)
Trim3(g) ==
  IF g % 100 = 0 THEN ToString(g \div 100)
  ELSE IF g % 10 = 0 THEN
    (IF g < 100 THEN "0" \o ToString(g \div 10) ELSE ToString(g \div 10))
  ELSE Pad3(g)

\* The decimal text of a natural number.
RECURSIVE IntText(_)
IntText(int) ==
  IF int = <<>> THEN "0"
  ELSE IF Len(int) = 1 THEN ToString(int[1])
  ELSE IntText(SubSeq(int, 1, Len(int) - 1)) \o Pad3(int[Len(int)])

\* Line 69: num.toString() for 0 < num < 1000, the shortest decimal that
\* reads back as the double: the literal itself, which has at most six
\* significant digits (a fraction of at most one group).
NumberToString(num) ==
  IF AllZero(num.frac) THEN IntText(num.int)
  ELSE IntText(num.int) \o "." \o Trim3(num.frac[1])

\* Line 94: the n of value.toFixed(1), the natural number for which n / 10
\* is nearest to the exact value of the double, the larger one of two (for
\* a value below 10^21).
Tenths(d) ==
  LET tens == TimesSmall(d.m, 10, 0)
  IN IF d.e >= 0 THEN TimesPow2(tens, d.e)
     ELSE DivSmall(PlusOne(DivPow2(tens, -d.e - 1)), 2, 0, <<>>).q

\* Line 94: value.toFixed(1), n written with one decimal.
ToFixed1(d) ==
  LET n == DivSmall(Tenths(d), 10, 0, <<>>)
  IN IntText(n.q) \o "." \o ToString(n.r)

\* Lines 72-85.
units == <<"", "k", "M", "B", "T", "Qa", "Qi", "Sx", "Sp", "Oc", "No", "Dc">>

\* Lines 89-92: the loop; unitIndex counts from 0 as in the code.
RECURSIVE Scale(_, _)
Scale(value, unitIndex) ==
  IF AtLeast1000(value) /\ unitIndex < Len(units) - 1
    THEN Scale(DivideBy1000(value), unitIndex + 1)
    ELSE [value |-> value, unitIndex |-> unitIndex]

\* Lines 52-95.
RECURSIVE formatLargeNumber(_)
formatLargeNumber(num) ==
  IF num.kind # "finite" THEN "0"
  ELSE IF IsNegative(num) THEN "-" \o formatLargeNumber(Negate(num))
  ELSE IF IsZero(num) THEN "0"
  ELSE IF ~AtLeast1000(NumberOf(num)) THEN NumberToString(num)
  ELSE LET scaled == Scale(NumberOf(num), 0)
       IN ToFixed1(scaled.value) \o units[scaled.unitIndex + 1]

\* The arguments of the model: null, undefined, NaN and the infinities; 0
\* and -0; numbers below 1000 with and without a fraction; and, for each
\* number of groups from 2 to MaxGroups, a first group of 1, 12 or 999
\* followed by a group that rounds down, lies halfway between two tenths,
\* rounds up or is near 1000, and by zeros; each of them with either sign.
Specials == { Special(k) : k \in {"null", "undefined", "NaN", "Infinity", "-Infinity"} }
Zeros(n) == [i \in 1..n |-> 0]
SmallNumbers ==
  { Finite(neg, int, frac) :
      neg \in BOOLEAN,
      int \in {<<>>, <<1>>, <<42>>, <<999>>},
      frac \in {<<>>, <<500>>, <<50>>, <<5>>, <<990>>} }
LargeNumbers ==
  { Finite(neg, <<first, second>> \o Zeros(n - 2), <<>>) :
      neg \in BOOLEAN, first \in {1, 12, 999},
      second \in {0, 49, 50, 150, 250, 949, 950, 951, 999}, n \in 2..MaxGroups }
Numbers == Specials \cup SmallNumbers \cup LargeNumbers

\* No call of formatLargeNumber yet, and a call about to be made with num.
NoFormat == [called |-> FALSE, num |-> Special("undefined"), text |-> ""]
FormatOf(num) == [called |-> FALSE, num |-> num, text |-> ""]

(***************************************************************************)
(* Credentials: process.env, read by checkProviderAPIKey and by            *)
(* refreshOpenRouterModels.                                                *)
(***************************************************************************)
EnvVars ==
  {"OPENAI_API_KEY", "GOOGLE_GENERATIVE_AI_API_KEY", "ANTHROPIC_API_KEY",
   "XAI_API_KEY", "OLLAMA_API_KEY", "GROQ_API_KEY", "OPENROUTER_API_KEY"}

\* A variable of the environment: unset, empty, the placeholder, a secret.
KeyValues == {Undef, Str(""), Str("****"), Str("sk-live")}

\* Lines 258-284: the variable that holds a provider's key; "" for a
\* provider the switch does not name.
KeyVarOf(provider) ==
  CASE provider = "openai" -> "OPENAI_API_KEY"
    [] provider = "google" -> "GOOGLE_GENERATIVE_AI_API_KEY"
    [] provider = "anthropic" -> "ANTHROPIC_API_KEY"
    [] provider = "xai" -> "XAI_API_KEY"
    [] provider = "ollama" -> "OLLAMA_API_KEY"
    [] provider = "groq" -> "GROQ_API_KEY"
    [] provider = "openRouter" -> "OPENROUTER_API_KEY"
    [] OTHER -> ""

\* Line 285: !!key && key != "****".
UsableKey(key) == Truthy(key) /\ key # Str("****")

VARIABLES
  booted,                   \* the module has been evaluated (line 219 has run)
  env,                      \* process.env, the key variables
  compat,                   \* what createOpenAICompatibleModels returned
  openRouterDynamicModels,  \* the dynamic table
  openRouterRefreshTimer,   \* "undefined" or "interval"
  intervals,                \* the intervals setInterval has created
  refreshes,                \* the invocations of refreshOpenRouterModels
  pricingRows,              \* the rows of the table of the pricing store
  allUnsupportedModels,     \* the set isToolCallUnsupportedModel tests
  received,                 \* the body parsed last and the invocation that got it
  repoCall,                 \* the last direct call of the pricing repository of each caller
  upserted,                 \* history: per modelId, the record of the upsert run last
  lastCompleted,            \* history: the invocation that returned last, 0 if none
  formatted                 \* the last call of formatLargeNumber and the text it returned

vars ==
  <<booted, env, compat, openRouterDynamicModels, openRouterRefreshTimer, intervals,
    refreshes, pricingRows, allUnsupportedModels, received, repoCall,
    upserted, lastCompleted, formatted>>

\* checkProviderAPIKey without the test for the placeholder.
checkProviderAPIKeyAnyText(provider) ==
  IF KeyVarOf(provider) = "" THEN TRUE
  ELSE Truthy(env[KeyVarOf(provider)])

\* checkProviderAPIKey with a default branch that returns false.
checkProviderAPIKeyDefaultFalse(provider) ==
  IF KeyVarOf(provider) = "" THEN FALSE
  ELSE UsableKey(env[KeyVarOf(provider)])

checkProviderAPIKey(provider) ==
  IF KeyVarOf(provider) = "" THEN TRUE
  ELSE UsableKey(env[KeyVarOf(provider)])

openaiCompatibleModels == compat.providers
openaiCompatibleUnsupportedModels == compat.unsupportedModels

\* Line 155: refreshOpenRouterModels returns at once.
NoApiKey == ~Truthy(env["OPENROUTER_API_KEY"]) \/ env["OPENROUTER_API_KEY"] = Str("****")

\* A catch block that throws the error again.
CatchRethrows == "rejected"

\* Lines 202-204: what the catch block makes of an error thrown in the try
\* block: the promise of refreshOpenRouterModels is fulfilled.
Catch == "fulfilled"

\* One invocation of refreshOpenRouterModels: where it is (fetch: awaiting
\* the response; json: awaiting the body; settle: awaiting the upserts;
\* done), whether it called fetch, the upserts it awaits, how many it issued
\* (upserts.length), how many entries of its list it kept (history), how
\* many keys its fresh table had (Object.keys(fresh).length), and the state
\* of the promise it returned.
Invocation(pc, fetched, upserts, result) ==
  [pc |-> pc, fetched |-> fetched, upserts |-> upserts, issued |-> 0, entries |-> 0,
   keys |-> 0, result |-> result]

\* The invocation that returns in a step from calls to calls2, or last if
\* none does.
Completed(calls, calls2, last) ==
  LET returns == { r \in DOMAIN calls2 :
                     /\ calls2[r].pc = "done"
                     /\ r \in DOMAIN calls => calls[r].pc # "done" }
  IN IF returns = {} THEN last ELSE CHOOSE r \in returns : TRUE

\* Lines 153-164: the call of refreshOpenRouterModels up to its first await.
refreshOpenRouterModels ==
  IF NoApiKey THEN Invocation("done", FALSE, <<>>, "fulfilled")
  ELSE Invocation("fetch", TRUE, <<>>, "pending")

InitRegistry ==
  /\ booted = FALSE
  /\ env \in { e \in [EnvVars -> KeyValues] :
                 \A v \in EnvVars \ {"OPENROUTER_API_KEY"} : e[v] = Undef }
  /\ compat \in CompatConfigs
  /\ openRouterDynamicModels = SeedOpenRouterModels
  /\ openRouterRefreshTimer = "undefined"
  /\ intervals = 0
  /\ refreshes = <<>>
  /\ pricingRows = {}
  /\ allUnsupportedModels = openaiCompatibleUnsupportedModels \cup staticUnsupportedModels
  /\ received = [by |-> 0, body |-> Body(NotArray, NotArray)]
  /\ repoCall = [c \in Callers |-> NoCall]
  /\ upserted = <<>>
  /\ lastCompleted = 0

Init ==
  /\ InitRegistry
  /\ formatted = NoFormat

\* startOpenRouterRefreshSchedule without the call of line 212.
NoInitialRefresh(calls) == calls

\* Line 212: the refresh of startup.
InitialRefresh(calls) == Append(calls, refreshOpenRouterModels)

\* Lines 209-219: startOpenRouterRefreshSchedule, called once when the
\* module is evaluated.
startOpenRouterRefreshSchedule ==
  /\ ~booted
  /\ booted' = TRUE
  /\ IF ~checkProviderAPIKey("openRouter")
       THEN UNCHANGED <<refreshes, openRouterRefreshTimer, intervals>>
       ELSE /\ refreshes' = InitialRefresh(refreshes)
            /\ IF openRouterRefreshTimer = "undefined"
                 THEN openRouterRefreshTimer' = "interval" /\ intervals' = intervals + 1
                 ELSE UNCHANGED <<openRouterRefreshTimer, intervals>>
  /\ lastCompleted' = Completed(refreshes, refreshes', lastCompleted)
  /\ UNCHANGED <<env, compat, openRouterDynamicModels, pricingRows, allUnsupportedModels, received,
                 repoCall, upserted, formatted>>

\* Lines 214-216: the interval fires.
TimerTick ==
  /\ booted
  /\ intervals > 0
  /\ Len(refreshes) < MaxRefreshes
  /\ refreshes' = Append(refreshes, refreshOpenRouterModels)
  /\ lastCompleted' = Completed(refreshes, refreshes', lastCompleted)
  /\ UNCHANGED <<booted, env, compat, openRouterDynamicModels, openRouterRefreshTimer,
                 intervals, pricingRows, allUnsupportedModels, received, repoCall, upserted,
                 formatted>>

\* Line 158: fetch rejects (network failure); the catch block ends the call.
FetchReject(r) ==
  /\ refreshes[r].pc = "fetch"
  /\ refreshes' = [refreshes EXCEPT ![r].pc = "done", ![r].result = Catch]
  /\ lastCompleted' = Completed(refreshes, refreshes', lastCompleted)
  /\ UNCHANGED <<booted, env, compat, openRouterDynamicModels, openRouterRefreshTimer,
                 intervals, pricingRows, allUnsupportedModels, received, repoCall, upserted,
                 formatted>>

\* Lines 158-166: fetch resolves; a response that is not ok ends the call,
\* an ok one is read as JSON.
FetchResolve(r, ok) ==
  /\ refreshes[r].pc = "fetch"
  /\ refreshes' =
       IF ~ok THEN [refreshes EXCEPT ![r].pc = "done", ![r].result = "fulfilled"]
       ELSE [refreshes EXCEPT ![r].pc = "json"]
  /\ lastCompleted' = Completed(refreshes, refreshes', lastCompleted)
  /\ UNCHANGED <<booted, env, compat, openRouterDynamicModels, openRouterRefreshTimer,
                 intervals, pricingRows, allUnsupportedModels, received, repoCall, upserted,
                 formatted>>

\* Line 166: response.json() rejects (the body is no JSON).
JsonReject(r) ==
  /\ refreshes[r].pc = "json"
  /\ refreshes' = [refreshes EXCEPT ![r].pc = "done", ![r].result = Catch]
  /\ lastCompleted' = Completed(refreshes, refreshes', lastCompleted)
  /\ UNCHANGED <<booted, env, compat, openRouterDynamicModels, openRouterRefreshTimer,
                 intervals, pricingRows, allUnsupportedModels, received, repoCall, upserted,
                 formatted>>

\* Lines 166-201: response.json() resolves with body; the list is walked,
\* the upserts are issued, the table is swapped, and the call awaits the
\* upserts if there are any.
JsonResolve(r, body) ==
  /\ refreshes[r].pc = "json"
  /\ LET built == Built(body, r) IN
       /\ openRouterDynamicModels' = Swap(openRouterDynamicModels, built.fresh)
       /\ refreshes' =
            IF Len(built.upserts) > 0
              THEN [refreshes EXCEPT ![r].pc = "settle", ![r].upserts = built.upserts,
                                     ![r].issued = Len(built.upserts),
                                     ![r].entries = Kept(body),
                                     ![r].keys = Cardinality(DOMAIN built.fresh.own)]
              ELSE [refreshes EXCEPT ![r].pc = "done", ![r].result = "fulfilled",
                                     ![r].entries = Kept(body),
                                     ![r].keys = Cardinality(DOMAIN built.fresh.own)]
  /\ received' = [by |-> r, body |-> body]
  /\ lastCompleted' = Completed(refreshes, refreshes', lastCompleted)
  /\ UNCHANGED <<booted, env, compat, openRouterRefreshTimer, intervals, pricingRows,
                 allUnsupportedModels, repoCall, upserted, formatted>>

\* Lines 16-34: the database runs the statement of the i-th upsert of
\* invocation r; its result is not yet delivered to the await of line 16
\* ("ran").
UpsertRun(r, i) ==
  /\ refreshes[r].pc = "settle"
  /\ refreshes[r].upserts[i].st = "pending"
  /\ pricingRows' = upsert(pricingRows, refreshes[r].upserts[i].rec)
  /\ refreshes' = [refreshes EXCEPT ![r].upserts[i].st = "ran"]
  /\ upserted' = (refreshes[r].upserts[i].rec.modelId :> refreshes[r].upserts[i].rec) @@ upserted
  /\ UNCHANGED <<booted, env, compat, openRouterDynamicModels, openRouterRefreshTimer,
                 intervals, allUnsupportedModels, received, repoCall, lastCompleted,
                 formatted>>

\* Lines 16 and 35: the result of the statement is delivered, the await of
\* line 16 resumes and the promise of the i-th upsert of invocation r is
\* fulfilled.
UpsertFulfil(r, i) ==
  /\ refreshes[r].pc = "settle"
  /\ refreshes[r].upserts[i].st = "ran"
  /\ refreshes' = [refreshes EXCEPT ![r].upserts[i].st = "fulfilled"]
  /\ UNCHANGED <<booted, env, compat, openRouterDynamicModels, openRouterRefreshTimer,
                 intervals, pricingRows, allUnsupportedModels, received, repoCall, upserted,
                 lastCompleted, formatted>>

\* Lines 15-35: the statement of the i-th upsert of invocation r fails,
\* writing no row, and its promise is rejected.
UpsertReject(r, i) ==
  /\ refreshes[r].pc = "settle"
  /\ refreshes[r].upserts[i].st = "pending"
  /\ refreshes' = [refreshes EXCEPT ![r].upserts[i].st = "rejected"]
  /\ UNCHANGED <<booted, env, compat, openRouterDynamicModels, openRouterRefreshTimer,
                 intervals, pricingRows, allUnsupportedModels, received, repoCall, upserted,
                 lastCompleted, formatted>>

\* Line 200: Promise.allSettled is settled once the promise of every upsert
\* is fulfilled or rejected.
AllSettled(upserts) == \A i \in 1..Len(upserts) : upserts[i].st \in {"fulfilled", "rejected"}

\* Line 200: Promise.allSettled is fulfilled whatever became of the upserts,
\* and so is the call.
SettledResult(upserts) == "fulfilled"

\* Lines 199-205: the await of line 200 returns and the call ends.
SettleDone(r) ==
  /\ refreshes[r].pc = "settle"
  /\ AllSettled(refreshes[r].upserts)
  /\ refreshes' = [refreshes EXCEPT ![r].pc = "done",
                                    ![r].result = SettledResult(refreshes[r].upserts),
                                    ![r].upserts = <<>>]
  /\ lastCompleted' = Completed(refreshes, refreshes', lastCompleted)
  /\ UNCHANGED <<booted, env, compat, openRouterDynamicModels, openRouterRefreshTimer,
                 intervals, pricingRows, allUnsupportedModels, received, repoCall, upserted,
                 formatted>>

Invocations == 1..Len(refreshes)

(***************************************************************************)
(* The readers: getAllModels, isToolCallUnsupportedModel and               *)
(* customModelProvider.                                                    *)
(***************************************************************************)
\* Lines 221-226: the compatible providers, overwritten by the static ones,
\* with the dynamic table under openRouter.
\* getAllModels without the openRouter entry of line 224: the table under
\* openRouter is the empty one of staticModels.
getAllModelsNoDynamic ==
  PlainObject([p \in DOMAIN staticModels |-> staticModels[p]] @@ openaiCompatibleModels)

getAllModels ==
  PlainObject(
    ("openRouter" :> openRouterDynamicModels) @@
    [p \in DOMAIN staticModels |-> staticModels[p]] @@
    openaiCompatibleModels)

\* isToolCallUnsupportedModel over the static deny list alone.
isStaticUnsupportedModel(model) == model \in staticUnsupportedModels

\* Lines 233-235.
isToolCallUnsupportedModel(model) == model \in allUnsupportedModels

\* builtin[k] for a built-in object or function of the runtime and a name k:
\* Object.prototype has no prototype; every function inherits from
\* Function.prototype.  Names outside ProtoKeys are not found.
GetBuiltin(builtin, k) ==
  IF k \notin ProtoKeys THEN Undefined
  ELSE IF builtin = ObjectPrototype
    THEN CASE k = "__proto__" -> Null
           [] k = "constructor" -> Builtin("Object")
           [] k = "toString" -> Builtin("Object.prototype.toString")
    ELSE CASE k = "__proto__" -> Builtin("Function.prototype")
           [] k = "constructor" -> Builtin("Function")
           [] k = "toString" -> Builtin("Function.prototype.toString")

\* obj[k] for a plain object: an own property, or what the prototype chain
\* gives (a handle set as prototype is an object whose chain ends in
\* Object.prototype).
Get(obj, k) ==
  IF k \in DOMAIN obj.own THEN obj.own[k]
  ELSE IF k = "__proto__" THEN obj.proto
  ELSE IF k \in ProtoKeys /\ obj.proto = ObjectPrototype THEN GetBuiltin(ObjectPrototype, k)
  ELSE IF k \in ProtoKeys THEN Builtin("inherited." \o k)
  ELSE Undefined

\* A ChatModel, or no argument.
NoModel == [given |-> FALSE, provider |-> "", model |-> ""]
ChatModel(provider, model) == [given |-> TRUE, provider |-> provider, model |-> model]

\* Lines 251-255: current[model.provider]?.[model.model] || fallbackModel.
getModel(model) ==
  IF ~model.given THEN fallbackModel
  ELSE LET current == getAllModels
           found ==
             IF model.provider \in DOMAIN current.own
               THEN Get(current.own[model.provider], model.model)
             ELSE IF model.provider \in ProtoKeys
               THEN GetBuiltin(Get(current, model.provider), model.model)
             ELSE Undefined
       IN IF TruthyObj(found) THEN found ELSE fallbackModel

\* Lines 240-250: one entry per own key of getAllModels(), the own keys of
\* its table, each with its flag, and the credential check.
modelsInfo ==
  LET current == getAllModels IN
    { [provider |-> p,
       models |-> { [name |-> n,
                     isToolCallUnsupported |-> isToolCallUnsupportedModel(current.own[p].own[n])] :
                    n \in DOMAIN current.own[p].own },
       hasAPIKey |-> checkProviderAPIKey(p)] : p \in DOMAIN current.own }

Next ==
  \/ startOpenRouterRefreshSchedule
  \/ TimerTick
  \/ \E r \in Invocations : FetchReject(r)
  \/ \E r \in Invocations, ok \in BOOLEAN : FetchResolve(r, ok)
  \/ \E r \in Invocations : JsonReject(r)
  \/ \E r \in Invocations :
       refreshes[r].pc = "json" /\ \E body \in Bodies : JsonResolve(r, body)
  \/ \E r \in Invocations, i \in 1..MaxList : i <= Len(refreshes[r].upserts) /\ UpsertRun(r, i)
  \/ \E r \in Invocations, i \in 1..MaxList : i <= Len(refreshes[r].upserts) /\ UpsertFulfil(r, i)
  \/ \E r \in Invocations, i \in 1..MaxList : i <= Len(refreshes[r].upserts) /\ UpsertReject(r, i)
  \/ \E r \in Invocations : SettleDone(r)

Spec == Init /\ [][Next]_vars

\* process.env.OPENROUTER_API_KEY changes while the process runs.
SetEnv(val) ==
  /\ booted
  /\ env["OPENROUTER_API_KEY"] # val
  /\ env' = [env EXCEPT !["OPENROUTER_API_KEY"] = val]
  /\ UNCHANGED <<booted, compat, openRouterDynamicModels, openRouterRefreshTimer,
                 intervals, refreshes, pricingRows, allUnsupportedModels, received, repoCall,
                 upserted, lastCompleted, formatted>>

\* The bodies of the runs in which the credential changes.
EnvBodies ==
  { Body(NotArray, NotArray),
    Body(Array(<<Entry(Str("A"), GoodPricing)>>), NotArray) }

NextEnv ==
  \/ startOpenRouterRefreshSchedule
  \/ TimerTick
  \/ \E val \in KeyValues : SetEnv(val)
  \/ \E r \in Invocations : FetchReject(r)
  \/ \E r \in Invocations, ok \in BOOLEAN : FetchResolve(r, ok)
  \/ \E r \in Invocations : JsonReject(r)
  \/ \E r \in Invocations :
       refreshes[r].pc = "json" /\ \E body \in EnvBodies : JsonResolve(r, body)
  \/ \E r \in Invocations, i \in 1..MaxList : i <= Len(refreshes[r].upserts) /\ UpsertRun(r, i)
  \/ \E r \in Invocations, i \in 1..MaxList : i <= Len(refreshes[r].upserts) /\ UpsertFulfil(r, i)
  \/ \E r \in Invocations, i \in 1..MaxList : i <= Len(refreshes[r].upserts) /\ UpsertReject(r, i)
  \/ \E r \in Invocations : SettleDone(r)

\* The runs in which the credential changes start without OpenAI-compatible
\* providers.
InitEnv == Init /\ compat.providers = <<>>

SpecEnv == InitEnv /\ [][NextEnv]_vars

\* One refresh (the one of startup) over every body of WideBodies.
NextWide ==
  \/ startOpenRouterRefreshSchedule
  \/ \E r \in Invocations : FetchReject(r)
  \/ \E r \in Invocations, ok \in BOOLEAN : FetchResolve(r, ok)
  \/ \E r \in Invocations : JsonReject(r)
  \/ \E r \in Invocations :
       refreshes[r].pc = "json" /\ \E body \in WideBodies : JsonResolve(r, body)
  \/ \E r \in Invocations, i \in 1..MaxList : i <= Len(refreshes[r].upserts) /\ UpsertRun(r, i)
  \/ \E r \in Invocations, i \in 1..MaxList : i <= Len(refreshes[r].upserts) /\ UpsertFulfil(r, i)
  \/ \E r \in Invocations, i \in 1..MaxList : i <= Len(refreshes[r].upserts) /\ UpsertReject(r, i)
  \/ \E r \in Invocations : SettleDone(r)

\* The wide runs start with a credential and without OpenAI-compatible
\* providers.
InitWide ==
  /\ Init
  /\ env["OPENROUTER_API_KEY"] = Str("sk-live")
  /\ compat.providers = <<>>

SpecWide == InitWide /\ [][NextWide]_vars

(***************************************************************************)
(* Direct calls of the pricing repository (it is exported to the rest of   *)
(* the application).                                                       *)
(***************************************************************************)
\* The variables a direct call of the repository leaves alone.
StoreUnchanged ==
  UNCHANGED <<booted, env, compat, openRouterDynamicModels, openRouterRefreshTimer,
              intervals, refreshes, allUnsupportedModels, received, lastCompleted,
              formatted>>

\* Lines 15-16: upsert(p) is called by c: the insert is issued and awaited;
\* the call returns its pending promise.
upsertCall(c, p) ==
  /\ Settled(repoCall[c])
  /\ repoCall' = [repoCall EXCEPT ![c] = UpsertCall(p)]
  /\ UNCHANGED <<pricingRows, upserted>>
  /\ StoreUnchanged

\* Lines 16-34: the database runs the statement of the upsert of c; its
\* result is not yet delivered to the await of line 16.
upsertRun(c) ==
  /\ repoCall[c].op = "upsert" /\ repoCall[c].pc = "statement"
  /\ LET p == repoCall[c].arg[1] IN
       /\ pricingRows' = upsert(pricingRows, p)
       /\ upserted' = (p.modelId :> p) @@ upserted
  /\ repoCall' = [repoCall EXCEPT ![c].pc = "ran"]
  /\ StoreUnchanged

\* Lines 16 and 35: the result of the statement is delivered to c, the
\* await of line 16 resumes and the promise of the call is fulfilled.
upsertFulfil(c) ==
  /\ repoCall[c].op = "upsert" /\ repoCall[c].pc = "ran"
  /\ repoCall' = [repoCall EXCEPT ![c].pc = "fulfilled"]
  /\ UNCHANGED <<pricingRows, upserted>>
  /\ StoreUnchanged

\* Line 16: the statement of the upsert of c fails; it writes no row and
\* the promise of the call is rejected.
upsertReject(c) ==
  /\ repoCall[c].op = "upsert" /\ repoCall[c].pc = "statement"
  /\ repoCall' = [repoCall EXCEPT ![c].pc = "rejected"]
  /\ UNCHANGED <<pricingRows, upserted>>
  /\ StoreUnchanged

\* Lines 36-38: getByModelIds(ids) is called by c.  With an empty list line
\* 37 returns [] and nothing is awaited: the promise is fulfilled with the
\* empty result and no query is issued.  Otherwise the select is issued
\* and awaited.
getByModelIdsCall(c, ids) ==
  /\ Settled(repoCall[c])
  /\ repoCall' = [repoCall EXCEPT ![c] =
       IF Len(ids) = 0
         THEN [LookupCall(ids) EXCEPT !.pc = "fulfilled", !.queried = FALSE, !.result = {}]
         ELSE [LookupCall(ids) EXCEPT !.pc = "select", !.queried = TRUE]]
  /\ UNCHANGED <<pricingRows, upserted>>
  /\ StoreUnchanged

\* Lines 38-41: the select of the call of c runs on the table as it is
\* now; its rows wait for the continuation of the call.
getByModelIdsSelect(c) ==
  /\ repoCall[c].op = "getByModelIds" /\ repoCall[c].pc = "select"
  /\ repoCall' = [repoCall EXCEPT ![c].pc = "map",
                                   ![c].rows = SelectInArray(pricingRows, repoCall[c].arg),
                                   ![c].seen = upserted]
  /\ UNCHANGED <<pricingRows, upserted>>
  /\ StoreUnchanged

\* Line 38: the select of the call of c fails and the promise of the call
\* is rejected.
getByModelIdsReject(c) ==
  /\ repoCall[c].op = "getByModelIds" /\ repoCall[c].pc = "select"
  /\ repoCall' = [repoCall EXCEPT ![c].pc = "rejected"]
  /\ UNCHANGED <<pricingRows, upserted>>
  /\ StoreUnchanged

\* Lines 42-49: the continuation of the call of c maps the rows the select
\* read and the promise of the call is fulfilled with the records.
getByModelIdsReturn(c) ==
  /\ repoCall[c].op = "getByModelIds" /\ repoCall[c].pc = "map"
  /\ repoCall' = [repoCall EXCEPT ![c].pc = "fulfilled",
                                   ![c].result = MapRows(repoCall[c].rows)]
  /\ UNCHANGED <<pricingRows, upserted>>
  /\ StoreUnchanged

NextStore ==
  \/ \E c \in Callers, p \in StoreRecords : upsertCall(c, p)
  \/ \E c \in Callers : upsertRun(c)
  \/ \E c \in Callers : upsertFulfil(c)
  \/ \E c \in Callers : upsertReject(c)
  \/ \E c \in Callers, ids \in LookupIds : getByModelIdsCall(c, ids)
  \/ \E c \in Callers : getByModelIdsSelect(c)
  \/ \E c \in Callers : getByModelIdsReject(c)
  \/ \E c \in Callers : getByModelIdsReturn(c)

\* The runs of the repository start from the empty table, before the module
\* of the registry is evaluated.
InitStore ==
  /\ Init
  /\ env["OPENROUTER_API_KEY"] = Undef
  /\ compat.providers = <<>>

SpecStore == InitStore /\ [][NextStore]_vars

(***************************************************************************)
(* The registry read while every key of the environment may change.        *)
(***************************************************************************)
\* A key variable of process.env is set or unset.
SetKey(var, val) ==
  /\ env[var] # val
  /\ Cardinality({ v \in EnvVars : [env EXCEPT ![var] = val][v] # Undef }) <= MaxKeysSet
  /\ env' = [env EXCEPT ![var] = val]
  /\ UNCHANGED <<booted, compat, openRouterDynamicModels, openRouterRefreshTimer,
                 intervals, refreshes, pricingRows, allUnsupportedModels, received,
                 repoCall, upserted, lastCompleted, formatted>>

\* One refresh (the one of startup) over the bodies of EnvBodies, and the
\* keys changing at any time.
NextInfo ==
  \/ startOpenRouterRefreshSchedule
  \/ \E var \in EnvVars, val \in KeyValues : SetKey(var, val)
  \/ \E r \in Invocations : FetchReject(r)
  \/ \E r \in Invocations, ok \in BOOLEAN : FetchResolve(r, ok)
  \/ \E r \in Invocations : JsonReject(r)
  \/ \E r \in Invocations :
       refreshes[r].pc = "json" /\ \E body \in EnvBodies : JsonResolve(r, body)
  \/ \E r \in Invocations, i \in 1..MaxList : i <= Len(refreshes[r].upserts) /\ UpsertRun(r, i)
  \/ \E r \in Invocations, i \in 1..MaxList : i <= Len(refreshes[r].upserts) /\ UpsertFulfil(r, i)
  \/ \E r \in Invocations, i \in 1..MaxList : i <= Len(refreshes[r].upserts) /\ UpsertReject(r, i)
  \/ \E r \in Invocations : SettleDone(r)

SpecInfo == Init /\ [][NextInfo]_vars

(***************************************************************************)
(* Calls of formatLargeNumber.                                             *)
(***************************************************************************)
\* Lines 52-95: formatLargeNumber is called with the argument of the run
\* and returns.
FormatLargeNumber ==
  /\ ~formatted.called
  /\ formatted' = [formatted EXCEPT !.called = TRUE,
                                    !.text = formatLargeNumber(formatted.num)]
  /\ UNCHANGED <<booted, env, compat, openRouterDynamicModels, openRouterRefreshTimer,
                 intervals, refreshes, pricingRows, allUnsupportedModels, received,
                 repoCall, upserted, lastCompleted>>

NextFormat == FormatLargeNumber

\* The chart is a component of its own: its runs start without a key and
\* without compatible providers in the registry, each with one of the
\* arguments of Numbers.
InitFormat ==
  /\ InitRegistry
  /\ env["OPENROUTER_API_KEY"] = Undef
  /\ compat.providers = <<>>
  /\ formatted \in { FormatOf(num) : num \in Numbers }

SpecFormat == InitFormat /\ [][NextFormat]_vars

(***************************************************************************)
(* The claims.                                                             *)
(***************************************************************************)
\* The requests the lookups are checked on: providers and models of the
\* static tables, of the compatible providers and of the catalog, names no
\* table holds, and names every object inherits.
RequestProviders ==
  {"openai", "ollama", "openRouter", "custom", "nope", "constructor", "__proto__"}
RequestModels ==
  {"gpt-4.1", "gpt-4.1-mini", "o4-mini", "gemma3:1b", "gpt-oss-20b:free", "m1", "m2",
   "only-compat", "A", "B", "nope", "toString", "constructor", "__proto__"}
Requests ==
  {NoModel} \cup { ChatModel(p, m) : p \in RequestProviders, m \in RequestModels }

\* The pair of a request is present in the combined table.
PresentPair(q) ==
  /\ q.provider \in DOMAIN getAllModels.own
  /\ q.model \in DOMAIN getAllModels.own[q.provider].own

\* C1: in every reachable state getModel returns the fallback handle when no
\* request is given, the handle stored at table[provider][model] of the
\* combined table when the pair is present, and the fallback handle for
\* every pair that is absent.
C1_GetModelTableOrFallback ==
  \A q \in Requests :
    getModel(q) =
      IF q.given /\ PresentPair(q)
        THEN getAllModels.own[q.provider].own[q.model]
        ELSE fallbackModel

\* An entry has a valid id: a string that is not empty.
ValidId(m) == m.id.t = "string" /\ m.id.s # ""

\* The parsed entry list of a body and its modelIds.
ParsedEntries(body) == SelectSeq(ListOf(body), ValidId)
ParsedIds(body) == { ParsedEntries(body)[i].id.s : i \in 1..Len(ParsedEntries(body)) }

\* C2: after a refresh whose parsed entry list is non-empty, the key set of
\* the dynamic table is exactly the set of modelIds of that list.
C2_FullReplacement ==
  (received.by > 0 /\ ParsedEntries(received.body) # <<>>)
    => DOMAIN openRouterDynamicModels.own = ParsedIds(received.body)

\* C3: the step in which a refresh parses a body whose parsed entry list is
\* empty leaves the dynamic table and the pricing store as they were and
\* issues no upsert.
C3_EmptyListLeavesTable ==
  [][ (received'.by # received.by /\ ParsedEntries(received'.body) = <<>>)
        => /\ openRouterDynamicModels' = openRouterDynamicModels
           /\ refreshes'[received'.by].issued = 0
           /\ refreshes'[received'.by].upserts = <<>>
           /\ refreshes'[received'.by].pc = "done"
           /\ pricingRows' = pricingRows ]_vars

\* A refresh has parsed a list whose entries all lack a valid id, and the
\* table is still the seed.
C3_Witness ==
  /\ received.by > 0
  /\ Len(ListOf(received.body)) > 0
  /\ ParsedEntries(received.body) = <<>>
  /\ refreshes[received.by].pc = "done"
  /\ openRouterDynamicModels = SeedOpenRouterModels

\* A step ends invocation r before it parsed a body: fetch rejected, the
\* status was not ok, or the body was no JSON.
FetchFails(r) ==
  /\ r \in DOMAIN refreshes
  /\ refreshes[r].pc \in {"fetch", "json"}
  /\ refreshes'[r].pc = "done"
  /\ received' = received

\* C4: when the catalog fetch of a refresh fails, the refresh ends with its
\* promise fulfilled, the dynamic table and the pricing store are as before,
\* no upsert is issued, and no further refresh or timer is started.
C4_FetchFailureIsSilent ==
  [][ \A r \in 1..MaxRefreshes :
        FetchFails(r)
          => /\ refreshes'[r].result = "fulfilled"
             /\ refreshes'[r].issued = 0
             /\ openRouterDynamicModels' = openRouterDynamicModels
             /\ pricingRows' = pricingRows
             /\ Len(refreshes') = Len(refreshes)
             /\ intervals' = intervals
             /\ openRouterRefreshTimer' = openRouterRefreshTimer ]_vars

\* The first refresh called fetch and ended without parsing a body, and the
\* second one has replaced the table.
C4_Witness ==
  /\ Len(refreshes) = 2
  /\ refreshes[1].fetched /\ refreshes[1].pc = "done"
  /\ received.by = 2
  /\ openRouterDynamicModels # SeedOpenRouterModels

\* An entry carries a prompt and a completion field that parse as numbers.
PricedEntry(m) ==
  /\ ValidId(m)
  /\ m.pricing.present
  /\ m.pricing.prompt # Undef /\ ~Number(m.pricing.prompt).nan
  /\ m.pricing.completion # Undef /\ ~Number(m.pricing.completion).nan

\* C5: a refresh issues exactly one upsert for every entry with a valid id
\* whose pricing carries a prompt and a completion field that parse as
\* numbers, with currency USD and requestPrice null when the request field
\* is absent, and none for any other entry.
C5_OneUpsertPerPricedEntry ==
  \A r \in Invocations :
    received.by = r =>
      LET priced == SelectSeq(ListOf(received.body), PricedEntry) IN
        /\ refreshes[r].issued = Len(priced)
        /\ refreshes[r].pc = "settle" =>
             /\ Len(refreshes[r].upserts) = Len(priced)
             /\ \A i \in 1..Len(priced) :
                  /\ refreshes[r].upserts[i].rec.modelId = priced[i].id.s
                  /\ refreshes[r].upserts[i].rec.currency = "USD"
                  /\ priced[i].pricing.request = Undef
                       => refreshes[r].upserts[i].rec.requestPrice.null

\* The i-th upsert of invocation r is rejected in this step.
Rejects(r, i) ==
  /\ r \in DOMAIN refreshes
  /\ i \in DOMAIN refreshes[r].upserts
  /\ refreshes[r].upserts[i].st = "pending"
  /\ refreshes'[r].upserts[i].st = "rejected"

\* C6: a failing upsert is isolated.  The table is swapped in the step that
\* issues the upserts, before any of them can fail; the step in which one is
\* rejected leaves the table, the pricing store and every other upsert of
\* the refresh as they were, so that each pending one can still run and
\* each that has run can still be fulfilled; and every refresh that ends,
\* ends with its promise fulfilled.  (Over the wide bodies the first part
\* fails for a priced list whose only id is "__proto__": line 184 issues
\* its upsert, line 177 gives fresh no key and line 196 skips the swap.)
C6_UpsertFailureIsolated ==
  /\ [](\A r \in Invocations :
          /\ (refreshes[r].pc = "settle" /\ received.by = r)
               => openRouterDynamicModels = Built(received.body, r).fresh
          /\ refreshes[r].pc = "done" => refreshes[r].result = "fulfilled")
  /\ [][ \A r \in 1..MaxRefreshes, i \in 1..MaxList :
           Rejects(r, i)
             => /\ openRouterDynamicModels' = openRouterDynamicModels
                /\ pricingRows' = pricingRows
                /\ refreshes'[r].pc = "settle"
                /\ refreshes'[r].result = "pending"
                /\ \A j \in DOMAIN refreshes[r].upserts \ {i} :
                     /\ refreshes'[r].upserts[j] = refreshes[r].upserts[j]
                     /\ refreshes[r].upserts[j].st = "pending"
                          => (ENABLED UpsertRun(r, j))'
                     /\ refreshes[r].upserts[j].st = "ran"
                          => (ENABLED UpsertFulfil(r, j))' ]_vars

\* C7: the table readers see changes only in the step in which a refresh
\* parses its body, and then from the table before to the whole table that
\* refresh built: every handle of it was made by that refresh, none is kept
\* from the table before.  In every state getModel and modelsInfo read that
\* table.
C7_ReadersSeeWholeTables ==
  /\ [](/\ \A m \in DOMAIN openRouterDynamicModels.own :
             getModel(ChatModel("openRouter", m)) = openRouterDynamicModels.own[m]
        /\ \E e \in modelsInfo :
             /\ e.provider = "openRouter"
             /\ { x.name : x \in e.models } = DOMAIN openRouterDynamicModels.own)
  /\ [][ openRouterDynamicModels' # openRouterDynamicModels
           => /\ received'.by # received.by
              /\ openRouterDynamicModels' = Built(received'.body, received'.by).fresh
              /\ \A m \in DOMAIN openRouterDynamicModels'.own :
                   openRouterDynamicModels'.own[m] = openrouter(m, received'.by) ]_vars

\* The second refresh has replaced the table of the first, which still
\* awaits its upserts: readers find the models of the second and none of
\* the first.
C7_Witness ==
  /\ Len(refreshes) = 2
  /\ refreshes[1].pc = "settle"
  /\ received.by = 2
  /\ DOMAIN openRouterDynamicModels.own = {"A"}
  /\ getModel(ChatModel("openRouter", "A")) = openrouter("A", 2)
  /\ getModel(ChatModel("openRouter", "B")) = fallbackModel

\* The credential of the dynamic provider is usable.
UsableCredential == UsableKey(env["OPENROUTER_API_KEY"])

\* C8: when the module is evaluated without a usable credential, no refresh
\* is invoked and no timer is created; from then on, whatever becomes of
\* the credential, there is no invocation, no fetch, no upsert, and the
\* dynamic table is its seed.  An invocation made while the credential is
\* unusable ends at once without calling fetch and changes nothing else.
C8_NoCredentialNoRefresh ==
  /\ [][ (~booted /\ booted' /\ ~UsableCredential)
           => (openRouterRefreshTimer' = "undefined" /\ intervals' = 0 /\ refreshes' = <<>>) ]_vars
  /\ []((booted /\ openRouterRefreshTimer = "undefined")
          => /\ intervals = 0
             /\ refreshes = <<>>
             /\ pricingRows = {}
             /\ openRouterDynamicModels = SeedOpenRouterModels)
  /\ [][ (Len(refreshes') > Len(refreshes) /\ ~UsableCredential)
           => /\ refreshes' = Append(refreshes, Invocation("done", FALSE, <<>>, "fulfilled"))
              /\ openRouterDynamicModels' = openRouterDynamicModels
              /\ pricingRows' = pricingRows
              /\ received' = received ]_vars
  /\ [](\A r \in Invocations :
          ~refreshes[r].fetched
            => (refreshes[r].pc = "done" /\ refreshes[r].issued = 0))

\* The module was evaluated without a usable credential, and the credential
\* has become usable since: still no timer and no invocation.
C8_Witness ==
  /\ booted
  /\ openRouterRefreshTimer = "undefined"
  /\ UsableCredential
  /\ refreshes = <<>>
  /\ openRouterDynamicModels = SeedOpenRouterModels

\* C9: when the module is evaluated with a usable credential, one refresh is
\* invoked at once and one interval is created; the interval is never
\* cleared; whatever became of the earlier refreshes the interval can fire,
\* and each time it fires one more refresh is invoked, which calls fetch.
C9_RefreshSchedule ==
  /\ [][ (~booted /\ booted' /\ UsableCredential)
           => /\ Len(refreshes') = 1
              /\ refreshes'[1].fetched /\ refreshes'[1].pc = "fetch"
              /\ openRouterRefreshTimer' = "interval"
              /\ intervals' = 1 ]_vars
  /\ []((booted /\ UsableCredential)
          => /\ openRouterRefreshTimer = "interval"
             /\ intervals = 1
             /\ Len(refreshes) >= 1
             /\ Len(refreshes) < MaxRefreshes => ENABLED TimerTick)
  /\ [][ (booted /\ Len(refreshes') # Len(refreshes))
           => /\ Len(refreshes') = Len(refreshes) + 1
              /\ SubSeq(refreshes', 1, Len(refreshes)) = refreshes
              /\ refreshes'[Len(refreshes')].fetched
              /\ refreshes'[Len(refreshes')].pc = "fetch" ]_vars

\* The refresh of startup has failed, and the interval has fired and
\* invoked a second refresh that awaits its response.
C9_Witness ==
  /\ booted
  /\ Len(refreshes) = 2
  /\ refreshes[1].pc = "done" /\ received.by = 0
  /\ refreshes[2].pc = "fetch"
  /\ intervals = 1

\* The handles of the tables, of the compatible layer and of the deny list.
KnownHandles ==
  UNION { { getAllModels.own[p].own[m] : m \in DOMAIN getAllModels.own[p].own } :
          p \in DOMAIN getAllModels.own }
    \cup UNION { { openaiCompatibleModels[p].own[m] : m \in DOMAIN openaiCompatibleModels[p].own } :
                 p \in DOMAIN openaiCompatibleModels }
    \cup staticUnsupportedModels \cup openaiCompatibleUnsupportedModels

\* C10: the unsupported set is the static deny list and the handles the
\* compatible layer flagged, in every state; isToolCallUnsupportedModel is
\* true of a handle exactly when it is in that set, also for the handles a
\* refresh has made; and no step changes the set.
C10_UnsupportedSetFixed ==
  /\ [](/\ allUnsupportedModels = staticUnsupportedModels \cup openaiCompatibleUnsupportedModels
        /\ \A h \in KnownHandles :
             isToolCallUnsupportedModel(h)
               <=> h \in staticUnsupportedModels \cup openaiCompatibleUnsupportedModels)
  /\ [][ /\ allUnsupportedModels' = allUnsupportedModels
         /\ compat' = compat ]_vars

\* A refresh has replaced the dynamic table, the compatible layer has
\* flagged a handle, and the handles of the refresh are not flagged.
C10_Witness ==
  /\ received.by > 0
  /\ openRouterDynamicModels # SeedOpenRouterModels
  /\ openaiCompatibleUnsupportedModels # {}
  /\ \E h \in openaiCompatibleUnsupportedModels : isToolCallUnsupportedModel(h)
  /\ \A m \in DOMAIN openRouterDynamicModels.own :
       ~isToolCallUnsupportedModel(openRouterDynamicModels.own[m])

\* The modelId, prices and currency a row stores, and those of a table.
StoredPrices(row) ==
  [modelId |-> row.modelId, promptPrice |-> row.promptPrice,
   completionPrice |-> row.completionPrice, requestPrice |-> row.requestPrice,
   currency |-> row.currency]
StoredPricesOf(rows) == { StoredPrices(row) : row \in rows }

\* The prices and currency of a record, as passed to upsert or as returned
\* by getByModelIds.
PricesOf(rec) ==
  [modelId |-> rec.modelId, promptPrice |-> rec.promptPrice,
   completionPrice |-> rec.completionPrice, requestPrice |-> rec.requestPrice,
   currency |-> rec.currency]

\* The statement of the upsert of caller c runs in this step.
UpsertRuns(c) ==
  /\ repoCall[c].op = "upsert" /\ repoCall[c].pc = "statement"
  /\ repoCall'[c].pc = "ran"

\* C11: the pricing store holds at most one row per modelId in every state,
\* whatever upserts were called, run or failed, and in whatever order.  An
\* upsert that runs leaves exactly one row with its modelId, which reads
\* back with the prices and currency of the upsert (a row inserted when
\* there was none), and leaves the rows of every other modelId as they
\* were; and applying the same upsert once more leaves the stored prices
\* and currencies of the table the same.
C11_UpsertByModelId ==
  /\ [](\A r1, r2 \in pricingRows : r1.modelId = r2.modelId => r1 = r2)
  /\ [][ \A c \in Callers : UpsertRuns(c)
           => LET p == repoCall[c].arg[1] IN
                /\ Cardinality(ConflictRows(pricingRows', p)) = 1
                /\ \A row \in ConflictRows(pricingRows', p) :
                     PricesOf(RecordOf(row)) = PricesOf(p)
                /\ ConflictRows(pricingRows, p) = {}
                     => Cardinality(pricingRows') = Cardinality(pricingRows) + 1
                /\ ConflictRows(pricingRows, p) # {}
                     => Cardinality(pricingRows') = Cardinality(pricingRows)
                /\ pricingRows' \ ConflictRows(pricingRows', p)
                     = pricingRows \ ConflictRows(pricingRows, p)
                /\ StoredPricesOf(upsert(pricingRows', p)) = StoredPricesOf(pricingRows') ]_vars

\* The row of A was inserted and then overwritten by an upsert with other
\* prices and another currency, the last upsert to run, while another
\* upsert of A has failed; and the row of B is as it was inserted.
C11_Witness ==
  /\ repoCall["c1"].op = "upsert" /\ repoCall["c1"].pc = "fulfilled"
  /\ repoCall["c1"].arg[1].modelId = "A" /\ repoCall["c1"].arg[1].currency = "EUR"
  /\ repoCall["c2"].op = "upsert" /\ repoCall["c2"].pc = "rejected"
  /\ repoCall["c2"].arg[1].modelId = "A" /\ repoCall["c2"].arg[1].currency = "USD"
  /\ \E row \in pricingRows :
       /\ row.modelId = "A" /\ row.updatedAt = "new Date()"
       /\ row.currency = "EUR" /\ row.requestPrice = [null |-> FALSE, text |-> "0"]
  /\ \E row \in pricingRows : row.modelId = "B" /\ row.updatedAt = "default"

\* The ids of a list.
IdsOf(ids) == { ids[i] : i \in 1..Len(ids) }

\* The call of getByModelIds of caller c returns in this step.
LookupReturns(c) ==
  /\ repoCall'[c].op = "getByModelIds" /\ repoCall'[c].pc = "fulfilled"
  /\ repoCall[c] # repoCall'[c]

\* C12: a call of getByModelIds with an empty list returns an empty result
\* and issues no query; a call with a list that is not empty issues a
\* query and returns one record for each modelId of the list that had been
\* upserted when its query ran and none for another, each with the prices
\* and currency of the upsert run last for its modelId before the query,
\* the request price null when null was stored; and no step of the call
\* changes the table.
C12_GetByModelIds ==
  [][ \A c \in Callers :
        /\ (repoCall'[c].op = "getByModelIds" /\ repoCall[c] # repoCall'[c])
             => pricingRows' = pricingRows
        /\ LookupReturns(c)
             => LET ids == repoCall'[c].arg
                    result == repoCall'[c].result
                    seen == repoCall[c].seen
                    known == IdsOf(ids) \cap DOMAIN seen
                IN /\ Len(ids) = 0 => (~repoCall'[c].queried /\ result = {})
                   /\ Len(ids) > 0 =>
                        /\ repoCall'[c].queried
                        /\ { rec.modelId : rec \in result } = known
                        /\ Cardinality(result) = Cardinality(known)
                        /\ \A rec \in result :
                             /\ PricesOf(rec) = PricesOf(seen[rec.modelId])
                             /\ seen[rec.modelId].requestPrice.null
                                  <=> rec.requestPrice.null ]_vars

\* A lookup of A, C and A again has returned the one record of A, whose
\* prices are those of the second upsert of A and whose request price is
\* null, while the row of B, stored too, was not returned; an upsert of A
\* that ran after the query of the lookup and before its return has
\* given the row of A another currency.
C12_Witness ==
  /\ repoCall["c1"].op = "getByModelIds" /\ repoCall["c1"].pc = "fulfilled"
  /\ repoCall["c1"].arg = <<"A", "C", "A">>
  /\ repoCall["c1"].queried
  /\ Cardinality(repoCall["c1"].result) = 1
  /\ \E rec \in repoCall["c1"].result :
       /\ rec.modelId = "A" /\ rec.updatedAt = "new Date()"
       /\ rec.requestPrice.null /\ rec.promptPrice = Micro(1)
       /\ rec.currency = "USD"
  /\ \E row \in pricingRows : row.modelId = "B"
  /\ \E row \in pricingRows : row.modelId = "A" /\ row.currency = "EUR"

\* The seven built-in providers, the providers of the combined table and
\* the table each has there.
BuiltinProviders == {"openai", "google", "anthropic", "xai", "ollama", "groq", "openRouter"}
Providers == BuiltinProviders \cup DOMAIN openaiCompatibleModels
TableOf(provider) ==
  IF provider = "openRouter" THEN openRouterDynamicModels
  ELSE IF provider \in BuiltinProviders THEN staticModels[provider]
  ELSE openaiCompatibleModels[provider]

\* The credential configured for a provider: the key variable of a built-in
\* provider, the apiKey of a compatible one.
CredentialOf(provider) ==
  IF provider \in BuiltinProviders THEN env[KeyVarOf(provider)]
  ELSE compat.apiKeys[provider]

\* The credential is present, not empty and not the placeholder.
Usable(key) == key.t = "string" /\ key.s # "" /\ key.s # "****"

\* modelsInfo has one entry per provider of the combined table, with the
\* names of the provider's current table, each flagged with whether its
\* handle is in the unsupported set.
InfoListsTables ==
  /\ { e.provider : e \in modelsInfo } = Providers
  /\ Cardinality(modelsInfo) = Cardinality(Providers)
  /\ \A e \in modelsInfo :
       /\ { x.name : x \in e.models } = DOMAIN TableOf(e.provider).own
       /\ Cardinality(e.models) = Cardinality(DOMAIN TableOf(e.provider).own)
       /\ \A x \in e.models :
            x.isToolCallUnsupported
              <=> TableOf(e.provider).own[x.name]
                    \in staticUnsupportedModels \cup openaiCompatibleUnsupportedModels

\* C13 as stated: in every state after the module is evaluated modelsInfo has one entry per
\* provider of the combined table, with the names of its current table and
\* their flags, and hasAPIKey true exactly when the credential of that
\* provider is present, not empty and not the placeholder.
C13_Original ==
  booted =>
    /\ InfoListsTables
    /\ \A e \in modelsInfo : e.hasAPIKey <=> Usable(CredentialOf(e.provider))

\* C13 amended: in every state after the module is evaluated modelsInfo has one entry per
\* provider of the combined table, with the names of its current table and
\* their flags; hasAPIKey is true exactly when the key variable is present,
\* not empty and not the placeholder for each of the seven built-in
\* providers, and true for every other provider, at each call.
C13_ModelsInfoListsCurrentTables ==
  booted =>
    /\ InfoListsTables
    /\ \A e \in modelsInfo :
         e.hasAPIKey <=>
           (e.provider \in BuiltinProviders => Usable(env[KeyVarOf(e.provider)]))

\* A refresh has replaced the dynamic table, a key was set after startup,
\* and modelsInfo lists the new table under openRouter, a built-in provider
\* with a key, one with the placeholder and a compatible provider.
C13_Witness ==
  /\ booted
  /\ DOMAIN openRouterDynamicModels.own = {"A"}
  /\ env["OPENAI_API_KEY"] = Str("sk-live")
  /\ env["OPENROUTER_API_KEY"] = Str("****")
  /\ \E e \in modelsInfo :
       e.provider = "openRouter" /\ ~e.hasAPIKey /\ { x.name : x \in e.models } = {"A"}
  /\ \E e \in modelsInfo : e.provider = "openai" /\ e.hasAPIKey
  /\ \E e \in modelsInfo :
       e.provider = "custom" /\ e.hasAPIKey /\ \E x \in e.models : x.isToolCallUnsupported

\* The dynamic table is the table refresh r built: it has models and every
\* handle of it was made by r.
TableBuiltBy(r) ==
  /\ DOMAIN openRouterDynamicModels.own # {}
  /\ \A m \in DOMAIN openRouterDynamicModels.own :
       openRouterDynamicModels.own[m] = openrouter(m, r)

\* Two or more refreshes were invoked and all have returned.
AllCompleted ==
  /\ Len(refreshes) >= 2
  /\ \A r \in Invocations : refreshes[r].pc = "done"

\* C14 as stated: once the refreshes, each of which yielded an entry list
\* that is not empty, have all completed, the dynamic table is the table
\* built by the refresh that completed last.  (Refreshes that do not overlap
\* complete in the order they are invoked, and the last one then is also
\* the last to swap.)
C14_Original ==
  (AllCompleted /\ \A r \in Invocations : refreshes[r].entries > 0)
    => TableBuiltBy(lastCompleted)

\* C14 amended: the refresh whose response is parsed last wins the swap,
\* whichever completes last.  Once the refreshes, each of which built a
\* fresh table that is not empty, have all completed, the dynamic table is
\* the whole table built by the refresh that parsed its body last; and a
\* step in which no body is parsed, such as the return of a refresh that
\* awaited its upserts, leaves the table as it is.
C14_LastParsedWins ==
  /\ []((AllCompleted /\ \A r \in Invocations : refreshes[r].keys > 0)
          => /\ TableBuiltBy(received.by)
             /\ openRouterDynamicModels = Built(received.body, received.by).fresh)
  /\ [][ received' = received => openRouterDynamicModels' = openRouterDynamicModels ]_vars

\* The refresh of startup parsed its body first and awaited its upserts
\* while the refresh of the timer parsed its body, swapped and returned;
\* the refresh of startup returned last, and the table is the one the
\* refresh of the timer built.
C14_Witness ==
  /\ AllCompleted
  /\ refreshes[1].keys > 0 /\ refreshes[2].keys > 0
  /\ refreshes[1].issued > 0
  /\ received.by = 2
  /\ lastCompleted = 1
  /\ TableBuiltBy(2)
  /\ ~TableBuiltBy(1)

\* An entry for which the loop issues an upsert.
UpsertedEntry(m) == ~SkipsEntry(m) /\ IssuesUpsert(m)

\* C15: the upserts a refresh issues are decided entry by entry and not by
\* the swap: in the step in which a refresh parses its body, whether it
\* swaps the table or leaves it, it issues one upsert for each entry that
\* has a string id and prices that are numbers, in the order of the list,
\* and each is for the modelId of its entry, whether or not that modelId is
\* a key of the fresh table.
C15_UpsertsIndependentOfSwap ==
  [][ received'.by # received.by
        => LET r == received'.by
               issuing == SelectSeq(ListOf(received'.body), UpsertedEntry)
           IN /\ refreshes'[r].issued = Len(issuing)
              /\ Len(refreshes'[r].upserts) = Len(issuing)
              /\ \A i \in 1..Len(issuing) :
                   /\ refreshes'[r].upserts[i].rec.modelId = issuing[i].id.s
                   /\ refreshes'[r].upserts[i].st = "pending" ]_vars

\* A refresh has installed its fresh table, and an upsert it issued has
\* written the row of a modelId that is no key of that table.
C15_Witness ==
  /\ received.by > 0
  /\ refreshes[received.by].issued > 0
  /\ DOMAIN openRouterDynamicModels.own # {}
  /\ openRouterDynamicModels = Built(received.body, received.by).fresh
  /\ \E row \in pricingRows : row.modelId \notin DOMAIN openRouterDynamicModels.own

\* C16: the dynamic table has at least one model in every state, whatever
\* refreshes succeeded, parsed an empty list or failed and however they
\* interleaved: it starts as the seed, which has models, and a step changes
\* it only to a fresh table that has at least one key.
C16_DynamicTableNeverEmpty ==
  /\ [](DOMAIN openRouterDynamicModels.own # {})
  /\ [](~booted => openRouterDynamicModels = SeedOpenRouterModels)
  /\ [][ openRouterDynamicModels' # openRouterDynamicModels
           => /\ refreshes'[received'.by].keys > 0
              /\ Cardinality(DOMAIN openRouterDynamicModels'.own) = refreshes'[received'.by].keys ]_vars

\* The first refresh installed its table and the second one, overlapping
\* it, parsed a list without a valid entry afterwards: the table is still
\* the one of the first.
C16_Witness ==
  /\ Len(refreshes) = 2
  /\ refreshes[1].keys > 0
  /\ received.by = 2
  /\ Len(ListOf(received.body)) > 0
  /\ refreshes[2].keys = 0
  /\ refreshes[2].pc = "done"
  /\ lastCompleted = 1
  /\ TableBuiltBy(1)

\* The provider ids configured both as a built-in provider and as an
\* OpenAI-compatible one.
SharedProviders == BuiltinProviders \cap DOMAIN openaiCompatibleModels

\* C17: in every state after the module is evaluated, the combined table
\* holds the dynamic table under openRouter and, under every provider id
\* that is configured both ways, the static (or dynamic) table; getModel
\* resolves a model of such a provider against that table alone, so that a
\* model defined only in the same-named compatible provider resolves to the
\* fallback handle; and modelsInfo lists that table.
C17_StaticOverCompatible ==
  booted =>
    /\ getAllModels.own["openRouter"] = openRouterDynamicModels
    /\ \A p \in SharedProviders :
         /\ getAllModels.own[p] = TableOf(p)
         /\ \A m \in DOMAIN openaiCompatibleModels[p].own :
              getModel(ChatModel(p, m)) =
                IF m \in DOMAIN TableOf(p).own THEN TableOf(p).own[m] ELSE fallbackModel
         /\ \E e \in modelsInfo :
              e.provider = p /\ { x.name : x \in e.models } = DOMAIN TableOf(p).own

\* C18: in every state after the module is evaluated, modelsInfo reports
\* hasAPIKey true for every provider that is none of the seven built-in
\* ones, whatever the environment and the provider's own apiKey hold, and
\* false for every built-in provider whose key variable is unset, empty or
\* the placeholder.
C18_CompatibleAlwaysHasKey ==
  booted =>
    \A e \in modelsInfo :
      /\ e.provider \notin BuiltinProviders => e.hasAPIKey
      /\ (/\ e.provider \in BuiltinProviders
          /\ env[KeyVarOf(e.provider)] \in {Undef, Str(""), Str("****")})
           => ~e.hasAPIKey

\* A compatible provider configured with an empty apiKey is reported with
\* a key while no variable of the environment holds one: the key of openai
\* is the placeholder, the key of google is empty, the others are unset.
C18_Witness ==
  /\ booted
  /\ "custom" \in DOMAIN compat.apiKeys
  /\ compat.apiKeys["custom"] = Str("")
  /\ env["OPENAI_API_KEY"] = Str("****")
  /\ env["GOOGLE_GENERATIVE_AI_API_KEY"] = Str("")
  /\ \E e \in modelsInfo : e.provider = "custom" /\ e.hasAPIKey
  /\ \A e \in modelsInfo : e.provider \in BuiltinProviders => ~e.hasAPIKey

\* The unit of the largest power of 1000 that does not exceed a number of
\* at least 1000 and below 10^36, and the one-decimal texts from 1.0 to
\* 999.9.
UnitOf(num) == units[Len(num.int)]
Mantissas == { ToString(m \div 10) \o "." \o ToString(m % 10) : m \in 10..9999 }

\* C19: formatLargeNumber returns "0" for null, undefined, NaN, an infinite
\* number and zero; "-" followed by the format of -num for a negative num;
\* the plain number for 0 < num < 1000; and for 1000 <= num < 10^36 a
\* one-decimal mantissa from 1.0 to 999.9 followed by the unit of the
\* largest power of 1000 that does not exceed num.
C19_MantissaBelow1000 ==
  formatted.called =>
    LET num == formatted.num
        text == formatted.text
    IN IF num.kind # "finite" \/ IsZero(num) THEN text = "0"
       ELSE IF IsNegative(num) THEN text = "-" \o formatLargeNumber(Negate(num))
       ELSE IF Len(num.int) < 2 THEN text = NumberToString(num)
       ELSE Len(num.int) <= Len(units)
              => \E mantissa \in Mantissas : text = mantissa \o UnitOf(num)

====
